---- MODULE Spec2Model ----
(***************************************************************************)
(* State-machine model of wf_merfish.postprocess.DataRegistration          *)
(* (src/src/wf_merfish/postprocess/DataRegistration.py).                   *)
(*                                                                         *)
(* The zarr store (round nodes under polyDT/, bit nodes under readouts/)   *)
(* and one DataRegistration instance are the state.  Each public method    *)
(* or property accessor is one action.  Volumes are symbolic terms: the    *)
(* raw array they come from, the point-spread function used to deconvolve  *)
(* them, and the sequence of geometric transforms applied to them, in      *)
(* order.  Shifts are integer multiples of 2^-26 um, so that float64       *)
(* addition is exact on them and the float32 narrowing of the code is      *)
(* computed, not assumed.                                                  *)
(***************************************************************************)
EXTENDS Integers, Sequences, FiniteSets, TLC

VARIABLES
    nodes,                  \* round groups that exist under polyDT/<tile>/
    rigid,                  \* attrs['rigid_xform_xyz_um'] of each round node
    ofx,                    \* array 'of_xform_4x' of each round node
    rarr,                   \* arrays decon_data / registered_decon_data of round nodes
    barr,                   \* the four output arrays of each bit node
    bitRound,               \* attrs['round'] of the bit nodes
    tile_idx,               \* self._tile_idx
    tile_id,                \* self._tile_id
    round_ids,              \* self._round_ids
    perform_optical_flow,   \* self._perform_optical_flow
    overwrite_registered,   \* self._overwrite_registered
    dataset_path,           \* whether the attribute self._dataset_path exists
    data_raw,               \* self._data_raw
    rigid_xforms,           \* self._rigid_xforms
    of_xforms,              \* self._of_xforms
    has_rigid_registrations,\* self._has_rigid_registrations
    has_of_registrations,   \* self._has_of_registrations
    data_registered,        \* self._data_registered
    has_registered_data,    \* self._has_registered_data
    has_registrations,      \* self._has_registrations
    call                    \* how the last operation ended, and what it applied

store == <<nodes, rigid, ofx, rarr, barr, bitRound>>
cache == <<data_raw, rigid_xforms, of_xforms, has_rigid_registrations,
           has_of_registrations, data_registered, has_registered_data>>
config == <<tile_idx, tile_id, round_ids, perform_optical_flow,
            overwrite_registered, dataset_path, has_registrations>>
vars == <<nodes, rigid, ofx, rarr, barr, bitRound, tile_idx, tile_id, round_ids,
          perform_optical_flow, overwrite_registered, dataset_path, data_raw, rigid_xforms,
          of_xforms, has_rigid_registrations, has_of_registrations,
          data_registered, has_registered_data, has_registrations, call>>

(***************************************************************************)
(* Bounds of the modelled dataset.                                         *)
(***************************************************************************)
MaxRound == 2
NumBits == 3
NumPsfs == 2

Tiles == {0, 1}
\* A tile whose last round was interrupted: the round node holds its
\* attributes and no raw_data array.
IncompleteTile == 2
\* A further tile of the mosaic, imaged in every round like tile 0.
SecondTile == 3
AllTiles == Tiles \cup {IncompleteTile, SecondTile}
RoundNums == 0..MaxRound
Bits == 1..NumBits
RoundIds == AllTiles \X RoundNums
BitIds == AllTiles \X Bits

\* Python's None for an integer attribute, and the id 'tileNone' the setter
\* derives from it.
NoneIdx == 0 - 1

\* The rounds acquired for a tile: the last round of tile 1 was not acquired.
RoundsOf(t) == IF t \in {0, SecondTile} THEN 0..MaxRound ELSE 0..(MaxRound - 1)

\* attrs['psf_idx'] of the acquired round and bit nodes.
RoundPsf(t, r) == IF t = 1 /\ r = 1 THEN 0 ELSE (r + t) % NumPsfs
BitPsf(t, b) == (b + t) % NumPsfs

(***************************************************************************)
(* Shifts: 3-vectors (x, y, z) in units of 2^-26 um.                       *)
(***************************************************************************)
Unit == 2 ^ 26
ZeroShift == <<0, 0, 0>>
NoShift == <<>>
\* A mutant: the second operand of a sum of shifts dropped.
Add3KeepFirst(a, b) == a

Add3(a, b) == <<a[1] + b[1], a[2] + b[2], a[3] + b[3]>>

F32Bits == 24

\* The largest e with 2^e <= n, for n >= 1.
RECURSIVE Log2(_)
Log2(n) == IF n < 2 THEN 0 ELSE 1 + Log2(n \div 2)

\* Round-to-nearest-even of a non-negative integer to 24 significant bits.
F32Nat(n) ==
    IF n < 2 ^ F32Bits THEN n
    ELSE LET q == 2 ^ (Log2(n) - (F32Bits - 1))
             r == n % q
             lo == n - r
         IN  IF 2 * r < q THEN lo
             ELSE IF 2 * r > q THEN lo + q
             ELSE IF (lo \div q) % 2 = 0 THEN lo ELSE lo + q

\* np.asarray(x, dtype=np.float32) followed by float(): one component.
F32(n) == IF n < 0 THEN 0 - F32Nat(0 - n) ELSE F32Nat(n)

F32Shift(s) == <<F32(s[1]), F32(s[2]), F32(s[3])>>

(***************************************************************************)
(* Volumes and fields as symbolic terms.                                   *)
(***************************************************************************)
NoSrc == <<"absent", 0, 0>>
NoField == <<"nofield", 0, 0>>

Vol(src, psf, dog, xf, dt) ==
    [src |-> src, psf |-> psf, dog |-> dog, xf |-> xf, dt |-> dt]

Absent == Vol(NoSrc, NoneIdx, FALSE, <<>>, "none")
Zeros(dt) == Vol(<<"zeros", 0, 0>>, NoneIdx, FALSE, <<>>, dt)
Old(kind, t, n, dt) == Vol(<<"old", t, n>>, NoneIdx, FALSE, <<>>, dt)
Raw(kind, t, n) == Vol(<<kind, t, n>>, NoneIdx, FALSE, <<>>, "uint16")

\* zarr casts to the array's dtype on assignment.
AsType(v, dt) == [v EXCEPT !.dt = dt]

RigidStep(s, grid) == [k |-> "rigid", s |-> s, f |-> NoField, grid |-> grid]
DenseStep(f, grid) == [k |-> "dense", s |-> ZeroShift, f |-> f, grid |-> grid]

RECURSIVE SumRigid(_)
SumRigid(xf) ==
    IF xf = <<>> THEN ZeroShift
    ELSE Add3(IF Head(xf).k = "rigid" THEN Head(xf).s ELSE ZeroShift,
              SumRigid(Tail(xf)))

HasDense(v) == \E i \in 1..Len(v.xf) : v.xf[i].k = "dense"

RoundArrNames == <<"decon_data", "registered_decon_data">>
BitArrNames == <<"decon_data", "dog_data", "registered_decon_data",
                 "registered_dog_data">>
Range(s) == {s[i] : i \in 1..Len(s)}

\* The dtype each array is created with (lines 303-312, 460-469, 611-630).
RoundDts == <<"uint16", "uint16">>
BitDts == <<"uint16", "float32", "uint16", "float32">>


(***************************************************************************)
(* The zarr store.                                                         *)
(***************************************************************************)
\* A round node that was acquired holds raw_data and the attributes gain,
\* psf_idx, stage_zyx_um; a group that zarr.open(mode='a') created holds nothing.
Acquired(nid) == nid[1] \in AllTiles /\ nid[2] \in RoundsOf(nid[1])

\* A round node that holds the attributes written at the start of its
\* acquisition (psf_idx among them), with or without raw_data.
HasAttrs(nid) == Acquired(nid) \/ (nid[1] = IncompleteTile /\ nid[2] \in RoundNums)

IndexOfName(names, n) == CHOOSE j \in 1..Len(names) : names[j] = n

\* try: group.zeros(name, ...) for each name in turn; the first name that
\* already exists raises, and the arrays created before it stay.
FirstPresent(arrs, names) ==
    LET P == {i \in 1..Len(names) : arrs[names[i]] # Absent}
    IN  IF P = {} THEN Len(names) + 1
        ELSE CHOOSE i \in P : \A j \in P : i <= j

\* try: zeros(...) for every name / except Exception: group[name] for every
\* name.  ok is FALSE when a lookup in the except branch raises KeyError.
CreateOrOpen(arrs, names, dts) ==
    LET k == FirstPresent(arrs, names)
        created == [n \in DOMAIN arrs |->
                     IF \E j \in 1..(k - 1) : names[j] = n
                     THEN Zeros(dts[IndexOfName(names, n)])
                     ELSE arrs[n]]
    IN  [arrs |-> created,
         ok |-> k > Len(names)
                \/ \A j \in 1..Len(names) : created[names[j]] # Absent]

\* A mutant: an array that already holds data keeps it.
WriteAllKeepExisting(arrs, names, dts, vals) ==
    [n \in DOMAIN arrs |->
        IF n \in Range(names) /\ arrs[n].src[1] = "zeros"
        THEN AsType(vals[IndexOfName(names, n)], arrs[n].dt)
        ELSE arrs[n]]

\* arr[:] = value for every name, value cast to the dtype of the array it is
\* assigned into: the one just created, or the one found and opened.
WriteAll(arrs, names, dts, vals) ==
    [n \in DOMAIN arrs |->
        IF n \in Range(names)
        THEN AsType(vals[IndexOfName(names, n)], arrs[n].dt)
        ELSE arrs[n]]

(***************************************************************************)
(* Loaders, as functions of the instance and the store.                    *)
(***************************************************************************)
NoData == [tile |-> NoneIdx, rounds |-> <<>>]
NoRegistered == [st |-> "unset", vols |-> <<>>]

\* load_raw_data, lines 210-223: every round of self._round_ids is opened
\* read-only under self._tile_id.
LoadRawResult(tid, rids, nds) ==
    LET bad == {i \in 1..Len(rids) : ~(<<tid, rids[i]>> \in nds /\ Acquired(<<tid, rids[i]>>))}
        first == CHOOSE i \in bad : \A j \in bad : i <= j
    IN  IF bad = {} THEN "ok"
        ELSE IF <<tid, rids[first]>> \in nds THEN "KeyError" ELSE "PathNotFoundError"

\* load_rigid_registrations, lines 657-672.
LoadRigid(tid, rids, nds, rg) ==
    LET rest == Tail(rids)
        ok == /\ rest # <<>>
              /\ \A i \in 1..Len(rest) :
                    /\ <<tid, rest[i]>> \in nds
                    /\ rg[<<tid, rest[i]>>] # NoShift
    IN  IF ok
        THEN [xf |-> [i \in 1..Len(rest) |-> F32Shift(rg[<<tid, rest[i]>>])], has |-> TRUE]
        ELSE [xf |-> <<>>, has |-> FALSE]

\* load_opticalflow_registrations, lines 679-694: with no non-reference round
\* the loop body never runs and the flag is set with the cache as it was.
LoadOpticalFlow(tid, rids, nds, of, old) ==
    LET rest == Tail(rids)
        ok == \A i \in 1..Len(rest) :
                    /\ <<tid, rest[i]>> \in nds
                    /\ of[<<tid, rest[i]>>] # NoField
    IN  IF rest = <<>> THEN [xf |-> old, has |-> TRUE]
        ELSE IF ok
        THEN [xf |-> [i \in 1..Len(rest) |-> of[<<tid, rest[i]>>]], has |-> TRUE]
        ELSE [xf |-> <<>>, has |-> FALSE]

\* How the last operation ended: "ok", "returned_none" (the printed 'Set tile
\* position first.' and return None), or the exception that left it; and the
\* translations apply_registration_to_bits handed to apply_transform.
Done(op, res) == [res |-> res, applied |-> <<>>]

(***************************************************************************)
(* __init__ and _parse_dataset, lines 40-57 and 179-187.                   *)
(***************************************************************************)
\* A mutant: the round directories in decreasing order.
RECURSIVE SortedRoundsDescending(_)
SortedRoundsDescending(S) ==
    IF S = {} THEN <<>>
    ELSE LET m == CHOOSE x \in S : \A y \in S : x >= y
         IN  <<m>> \o SortedRoundsDescending(S \ {m})

\* sorted(..., key=int(...)) of the round directories of a tile.
RECURSIVE SortedRounds(_)
SortedRounds(S) ==
    IF S = {} THEN <<>>
    ELSE LET m == CHOOSE x \in S : \A y \in S : x <= y
         IN  <<m>> \o SortedRounds(S \ {m})

\* attrs['round'] of the bit nodes: bit b images round (b - 1) mod the number
\* of rounds, so bit 1 is on the reference round.
StandardLayout == [b \in Bits |-> (b - 1) % (MaxRound + 1)]

\* The state after DataRegistration(dataset_path, overwrite_registered,
\* perform_optical_flow, tile_idx) on a dataset whose round nodes hold the
\* output arrays roundPrior and whose bit nodes hold bitPrior from an earlier
\* pipeline run.
Constructed(roundPrior, bitPrior, layout, tile) ==
    /\ nodes = {nid \in RoundIds : HasAttrs(nid)}
    /\ rigid = [nid \in RoundIds |-> NoShift]
    /\ ofx = [nid \in RoundIds |-> NoField]
    /\ rarr = [nid \in RoundIds |->
                 [n \in Range(RoundArrNames) |->
                    IF Acquired(nid) /\ n \in roundPrior
                    THEN Old("round", nid[1], nid[2],
                             RoundDts[IndexOfName(RoundArrNames, n)])
                    ELSE Absent]]
    /\ barr = [bid \in BitIds |->
                 [n \in Range(BitArrNames) |->
                    IF n \in bitPrior
                    THEN Old("bit", bid[1], bid[2], BitDts[IndexOfName(BitArrNames, n)])
                    ELSE Absent]]
    /\ bitRound = layout
    /\ LET t0 == IF tile = NoneIdx THEN 0 ELSE tile
       IN  /\ tile_idx = t0
           /\ tile_id = t0
           /\ round_ids = SortedRounds(RoundsOf(t0))
    /\ perform_optical_flow \in BOOLEAN
    /\ overwrite_registered \in BOOLEAN
    /\ dataset_path = "set"
    /\ data_raw = NoData
    /\ rigid_xforms = <<>>
    /\ of_xforms = <<>>
    /\ has_rigid_registrations = FALSE
    /\ has_of_registrations = FALSE
    /\ data_registered = NoRegistered
    /\ has_registered_data = FALSE
    /\ has_registrations = "unset"
    /\ call = Done("init", "ok")

\* A freshly acquired dataset, the instance constructed on its first tile.
Init == \E tile \in {NoneIdx, 0} : Constructed({}, {}, StandardLayout, tile)

(***************************************************************************)
(* Property setters and deleters.                                          *)
(***************************************************************************)
\* dataset_path.deleter, lines 76-82: `del self._dataset_path` runs, then
\* `del self._dataset` raises AttributeError because __init__ never assigns
\* self._dataset, so the attribute stays removed; a second call raises at the
\* test of line 78.  The setter (lines 70-74) starts with this deleter and so
\* makes the same step.
DelDatasetPath ==
    /\ dataset_path' = "deleted"
    /\ call' = Done("del_dataset_path", "AttributeError")
    /\ UNCHANGED <<store, cache, tile_idx, tile_id, round_ids, perform_optical_flow,
                   overwrite_registered, has_registrations>>

\* tile_idx.setter, lines 93-97.
SetTileIdx ==
    \E new \in Tiles \cup {NoneIdx} :
        /\ has_registrations' = "False"
        /\ tile_idx' = new
        /\ tile_id' = new
        /\ call' = Done("set_tile_idx", "ok")
        /\ UNCHANGED <<store, cache, round_ids, perform_optical_flow, overwrite_registered,
                       dataset_path>>

\* tile_idx.deleter, lines 99-109: `del self.data_raw` runs, `del
\* self.data_registered` raises AttributeError while self._data_registered was
\* never assigned, and `del self.rigid_xforms` always raises AttributeError
\* because nothing assigns self._total_xform.
DelTileIdx ==
    /\ IF tile_idx = NoneIdx
       THEN /\ UNCHANGED <<data_raw, data_registered>>
            /\ call' = Done("del_tile_idx", "ok")
       ELSE /\ data_raw' = NoData
            /\ data_registered' = IF data_registered.st = "unset" THEN data_registered
                                  ELSE [st |-> "none", vols |-> <<>>]
            /\ call' = Done("del_tile_idx", "AttributeError")
    /\ UNCHANGED <<store, config, rigid_xforms, of_xforms, has_rigid_registrations,
                   has_of_registrations, has_registered_data>>

\* rigid_xforms getter, lines 136-142: it reads self._total_xform, which no
\* line of the class assigns, so the read raises AttributeError whatever
\* load_rigid_registrations stored in self._rigid_xforms.
GetRigidXforms ==
    /\ call' = Done("get_rigid_xforms", "AttributeError")
    /\ UNCHANGED <<store, cache, config>>

\* perform_optical_flow.setter, lines 155-157.
SetPerformOpticalFlow ==
    /\ perform_optical_flow' = ~perform_optical_flow
    /\ call' = Done("set_perform_optical_flow", "ok")
    /\ UNCHANGED <<store, cache, tile_idx, tile_id, round_ids, overwrite_registered,
                   dataset_path,
                   has_registrations>>

\* of_xforms.deleter, lines 167-172.
DelOfXforms ==
    /\ of_xforms' = <<>>
    /\ call' = Done("del_of_xforms", "ok")
    /\ UNCHANGED <<store, config, data_raw, rigid_xforms, has_rigid_registrations,
                   has_of_registrations, data_registered, has_registered_data>>

\* data_registered.deleter, lines 130-134: `del self._data_registered` raises
\* AttributeError while the attribute was never assigned (__init__ does not
\* create it); otherwise the stack is dropped, whatever the tile index.
DelDataRegistered ==
    /\ IF data_registered.st = "unset"
       THEN /\ UNCHANGED data_registered
            /\ call' = Done("del_data_registered", "AttributeError")
       ELSE /\ data_registered' = [st |-> "none", vols |-> <<>>]
            /\ call' = Done("del_data_registered", "ok")
    /\ UNCHANGED <<store, config, data_raw, rigid_xforms, of_xforms,
                   has_rigid_registrations, has_of_registrations, has_registered_data>>

\* data_raw.deleter, lines 119-124.
DelDataRaw ==
    /\ data_raw' = NoData
    /\ call' = Done("del_data_raw", "ok")
    /\ UNCHANGED <<store, config, rigid_xforms, of_xforms, has_rigid_registrations,
                   has_of_registrations, data_registered, has_registered_data>>

(***************************************************************************)
(* The loaders as operations.                                              *)
(***************************************************************************)
\* A mutant: the round groups opened with mode='a', which creates the ones
\* that are missing.
LoadRawDataAppendMode ==
    /\ IF tile_idx = NoneIdx
       THEN /\ UNCHANGED <<data_raw, nodes>>
            /\ call' = Done("load_raw_data", "returned_none")
       ELSE LET opened == nodes \cup {<<tile_id, round_ids[i]>> : i \in 1..Len(round_ids)}
                res == LoadRawResult(tile_id, round_ids, opened)
            IN  /\ nodes' = opened
                /\ data_raw' = IF res = "ok" THEN [tile |-> tile_id, rounds |-> round_ids]
                               ELSE data_raw
                /\ call' = Done("load_raw_data", res)
    /\ UNCHANGED <<rigid, ofx, rarr, barr, bitRound, config, rigid_xforms, of_xforms,
                   has_rigid_registrations, has_of_registrations, data_registered,
                   has_registered_data>>

\* load_raw_data, lines 200-223.
LoadRawData ==
    /\ IF tile_idx = NoneIdx
       THEN /\ UNCHANGED data_raw
            /\ call' = Done("load_raw_data", "returned_none")
       ELSE LET res == LoadRawResult(tile_id, round_ids, nodes)
            IN  /\ data_raw' = IF res = "ok" THEN [tile |-> tile_id, rounds |-> round_ids]
                               ELSE data_raw
                /\ call' = Done("load_raw_data", res)
    /\ UNCHANGED <<store, config, rigid_xforms, of_xforms, has_rigid_registrations,
                   has_of_registrations, data_registered, has_registered_data>>

\* load_rigid_registrations, lines 647-672.
LoadRigidRegistrations ==
    /\ IF tile_idx = NoneIdx
       THEN /\ UNCHANGED <<rigid_xforms, has_rigid_registrations>>
            /\ call' = Done("load_rigid_registrations", "returned_none")
       ELSE LET got == LoadRigid(tile_id, round_ids, nodes, rigid)
            IN  /\ rigid_xforms' = got.xf
                /\ has_rigid_registrations' = got.has
                /\ call' = Done("load_rigid_registrations", "ok")
    /\ UNCHANGED <<store, config, data_raw, of_xforms, has_of_registrations,
                   data_registered, has_registered_data>>

\* load_opticalflow_registrations, lines 674-694: no check of the tile index.
LoadOpticalFlowRegistrations ==
    LET got == LoadOpticalFlow(tile_id, round_ids, nodes, ofx, of_xforms)
    IN  /\ of_xforms' = got.xf
        /\ has_of_registrations' = got.has
        /\ call' = Done("load_opticalflow_registrations", "ok")
        /\ UNCHANGED <<store, config, data_raw, rigid_xforms, has_rigid_registrations,
                       data_registered, has_registered_data>>

(***************************************************************************)
(* The numerical routines behind generate_registrations and                *)
(* apply_registration_to_bits.                                             *)
(***************************************************************************)

\* richardson_lucy_nc(image, psf=self._psfs[p, :], ...).
richardson_lucy_nc(raw, p) == [raw EXCEPT !.psf = p]

\* Round 1 of tile 1 was acquired as a repeat of the tile's reference round: the
\* same sample position, the same voxels.
CopyOfReference(src) == src[1] = "round" /\ src[2] = 1 /\ src[3] = 1

\* The passes that find no usable correlation peak: on tile 0 the z search of
\* round 1, on the second complete tile the xy pass of round 1 and the full 3D
\* pass of the last round.
NoPeak(src, projection) ==
    /\ src[1] = "round"
    /\ \/ src[2] = 0 /\ src[3] = 1 /\ projection = "search"
       \/ src[2] = SecondTile /\ src[3] = 1 /\ projection = "z"
       \/ src[2] = SecondTile /\ src[3] = MaxRound /\ projection = "none"

\* The drift of a raw volume against the reference round of its tile: what the
\* three correlation passes have to recover.
Drift(src) ==
    IF src[1] = "round" /\ src[3] > 0 /\ ~CopyOfReference(src)
    THEN <<0 - (src[3] * Unit + src[2] + 1), 0 - Unit, 0 - (2 * Unit + 3)>>
    ELSE ZeroShift

Pos(v) == Add3(Drift(v.src), SumRigid(v.xf))

\* A projection pass resolves its components to whole um only.
Coarse(x) == IF x < 0 THEN 0 - (((0 - x) \div Unit) * Unit) ELSE (x \div Unit) * Unit

\* The shift at the correlation peak of a pass: 'z' estimates x and y,
\* 'search' estimates z, None estimates all three axes.
PeakShift(ref, mov, projection) ==
    LET d == <<Pos(ref)[1] - Pos(mov)[1], Pos(ref)[2] - Pos(mov)[2],
               Pos(ref)[3] - Pos(mov)[3]>>
    IN  IF projection = "z" THEN <<Coarse(d[1]), Coarse(d[2]), 0>>
        ELSE IF projection = "search" THEN <<0, 0, Coarse(d[3])>>
        ELSE d

\* A mutant: the 3D pass reports its peak one um off along x.
compute_rigid_transform_offset(ref, mov, projection) ==
    IF projection = "none"
    THEN Add3(PeakShift(ref, mov, projection), <<Unit, 0, 0>>)
    ELSE PeakShift(ref, mov, projection)

\* A mutant: a pass without a usable peak reports the maximum it found.
compute_rigid_transform_any_peak(ref, mov, projection) ==
    PeakShift(ref, mov, projection)

\* _registration.compute_rigid_transform(ref, mov, projection=...): the shift
\* that brings mov onto ref, and a zero shift when the pass finds no peak.
compute_rigid_transform(ref, mov, projection) ==
    IF NoPeak(mov.src, projection) THEN ZeroShift
    ELSE PeakShift(ref, mov, projection)

\* _registration.apply_transform(ref, mov, TranslationTransform(3, shift)):
\* mov resampled onto the grid of ref.
apply_transform(ref, mov, shift) ==
    [mov EXCEPT !.xf = Append(mov.xf, RigidStep(shift, ref.src))]

\* _registration.compute_optical_flow(ref_ds, mov_ds): the field of the moving
\* volume, at the 4x-downsampled resolution.
compute_optical_flow(ref, mov) == <<"of4x", mov.src[2], mov.src[3]>>

\* A mutant: the stored field used as the displacement field as it is, with no
\* resampling onto a full-resolution grid.
ResampleDenseDirect(image, field, grid) ==
    [image EXCEPT !.xf = Append(image.xf, DenseStep(field, NoSrc))]

\* sitk.Resample(of_4x_sitk, grid, identity, sitkLinear, ...) followed by
\* sitk.Resample(image, DisplacementFieldTransform(...)).
ResampleDense(image, field, grid) ==
    [image EXCEPT !.xf = Append(image.xf, DenseStep(field, grid.src))]

(***************************************************************************)
(* generate_registrations, lines 279-482.                                  *)
(***************************************************************************)
\* Lines 295-320: the reference round.
GenReference(draw) ==
    LET nid == <<tile_id, round_ids[1]>>
        ref == richardson_lucy_nc(Raw("round", draw.tile, draw.rounds[1]), 0)
        co == CreateOrOpen(rarr[nid], RoundArrNames, RoundDts)
    IN  [nodes |-> nodes \cup {nid},
         rigid |-> rigid,
         ofx |-> ofx,
         rarr |-> [rarr EXCEPT ![nid] =
                    IF co.ok THEN WriteAll(co.arrs, RoundArrNames, RoundDts, <<ref, ref>>)
                    ELSE co.arrs],
         res |-> IF co.ok THEN "ok" ELSE "KeyError"]

\* A mutant: the displacement field applied, then the last translation.
GenRegisteredDenseFirst(ref, mov3, of) ==
    IF of
    THEN [mov3 EXCEPT !.xf = SubSeq(mov3.xf, 1, Len(mov3.xf) - 1)
                              \o <<DenseStep(compute_optical_flow(ref, mov3), mov3.src),
                                   mov3.xf[Len(mov3.xf)]>>]
    ELSE mov3

\* A mutant: the displacement field is estimated and applied whether or not
\* optical flow was asked for.
GenRegisteredAlwaysDense(ref, mov3, of) ==
    ResampleDense(mov3, compute_optical_flow(ref, mov3), mov3)

\* The registered volume of lines 412-458.
GenRegistered(ref, mov3, of) ==
    IF of THEN ResampleDense(mov3, compute_optical_flow(ref, mov3), mov3)
    ELSE mov3

\* A mutant: the round's volumes are persisted and its shift is not.
GenRoundVolumesOnly(g, i, draw) ==
    LET nid == <<tile_id, round_ids[i]>>
        opened == [g EXCEPT !.nodes = g.nodes \cup {nid}]
    IN  IF ~HasAttrs(nid) THEN [opened EXCEPT !.res = "KeyError"]
        ELSE IF i > Len(draw.rounds) THEN [opened EXCEPT !.res = "IndexError"]
        ELSE
        LET ref == richardson_lucy_nc(Raw("round", draw.tile, draw.rounds[1]), 0)
            mov0 == richardson_lucy_nc(Raw("round", draw.tile, draw.rounds[i]),
                                       RoundPsf(nid[1], nid[2]))
            mov1 == apply_transform(ref, mov0, compute_rigid_transform(ref, mov0, "z"))
            mov2 == apply_transform(ref, mov1, compute_rigid_transform(ref, mov1, "search"))
            mov3 == apply_transform(ref, mov2, compute_rigid_transform(ref, mov2, "none"))
            co == CreateOrOpen(g.rarr[nid], RoundArrNames, RoundDts)
        IN  [nodes |-> opened.nodes,
             rigid |-> g.rigid,
             ofx |-> g.ofx,
             rarr |-> [g.rarr EXCEPT ![nid] =
                        IF co.ok
                        THEN WriteAll(co.arrs, RoundArrNames, RoundDts,
                                      <<mov0, GenRegistered(ref, mov3, perform_optical_flow)>>)
                        ELSE co.arrs],
             res |-> IF co.ok THEN "ok" ELSE "KeyError"]

\* Lines 327-479: the round at position i of self._round_ids.
GenRound(g, i, draw) ==
    LET nid == <<tile_id, round_ids[i]>>
        opened == [g EXCEPT !.nodes = g.nodes \cup {nid}]
    IN  IF ~HasAttrs(nid) THEN [opened EXCEPT !.res = "KeyError"]
        ELSE IF i > Len(draw.rounds) THEN [opened EXCEPT !.res = "IndexError"]
        ELSE
        LET ref == richardson_lucy_nc(Raw("round", draw.tile, draw.rounds[1]), 0)
            mov0 == richardson_lucy_nc(Raw("round", draw.tile, draw.rounds[i]),
                                       RoundPsf(nid[1], nid[2]))
            initial_xy_shift == compute_rigid_transform(ref, mov0, "z")
            mov1 == apply_transform(ref, mov0, initial_xy_shift)
            intial_z_shift == compute_rigid_transform(ref, mov1, "search")
            mov2 == apply_transform(ref, mov1, intial_z_shift)
            xyz_shift_4x == compute_rigid_transform(ref, mov2, "none")
            final_xyz_shift == Add3(Add3(initial_xy_shift, intial_z_shift), xyz_shift_4x)
            mov3 == apply_transform(ref, mov2, xyz_shift_4x)
            data_registered_r == GenRegistered(ref, mov3, perform_optical_flow)
            co == CreateOrOpen(g.rarr[nid], RoundArrNames, RoundDts)
        IN  [nodes |-> opened.nodes,
             rigid |-> [g.rigid EXCEPT ![nid] = final_xyz_shift],
             ofx |-> IF perform_optical_flow
                     THEN [g.ofx EXCEPT ![nid] = compute_optical_flow(ref, mov3)]
                     ELSE g.ofx,
             rarr |-> [g.rarr EXCEPT ![nid] =
                        IF co.ok
                        THEN WriteAll(co.arrs, RoundArrNames, RoundDts,
                                      <<mov0, data_registered_r>>)
                        ELSE co.arrs],
             res |-> IF co.ok THEN "ok" ELSE "KeyError"]

RECURSIVE GenLoop(_, _, _)
\* A mutant: the rounds after a failed round are still processed.
GenLoopContinuing(g, i, draw) ==
    IF i > Len(round_ids) THEN g
    ELSE LET h == GenRound(g, i, draw)
         IN  GenLoop(IF g.res # "ok" THEN [h EXCEPT !.res = g.res] ELSE h, i + 1, draw)

GenLoop(g, i, draw) ==
    IF g.res # "ok" \/ i > Len(round_ids) THEN g
    ELSE GenLoop(GenRound(g, i, draw), i + 1, draw)

GenerateRegistrations ==
    IF tile_idx = NoneIdx
    THEN /\ call' = Done("generate_registrations", "returned_none")
         /\ UNCHANGED <<store, cache, config>>
    ELSE
    LET loaded == IF data_raw = NoData THEN LoadRawResult(tile_id, round_ids, nodes)
                  ELSE "ok"
        draw == IF data_raw = NoData THEN [tile |-> tile_id, rounds |-> round_ids]
                ELSE data_raw
    IN  IF loaded # "ok"
        THEN /\ call' = Done("generate_registrations", loaded)
             /\ UNCHANGED <<store, cache, config>>
        ELSE
        LET g == GenLoop(GenReference(draw), 2, draw)
        IN  /\ nodes' = g.nodes
            /\ rigid' = g.rigid
            /\ ofx' = g.ofx
            /\ rarr' = g.rarr
            /\ data_raw' = draw
            /\ call' = Done("generate_registrations", g.res)
            /\ UNCHANGED <<barr, bitRound, config, rigid_xforms, of_xforms,
                           has_rigid_registrations, has_of_registrations,
                           data_registered, has_registered_data>>

(***************************************************************************)
(* load_registered_data, lines 225-277.  The loaded stack is kept as the   *)
(* tile it was read from and whether the readouts were read.               *)
(***************************************************************************)
RegisteredAvailable(readouts) ==
    IF ~readouts
    THEN \A i \in 1..Len(round_ids) :
            /\ <<tile_id, round_ids[i]>> \in nodes
            /\ rarr[<<tile_id, round_ids[i]>>]["registered_decon_data"] # Absent
    ELSE /\ dataset_path = "set"
         /\ tile_idx \in AllTiles
         /\ <<tile_id, round_ids[1]>> \in nodes
         /\ rarr[<<tile_id, round_ids[1]>>]["registered_decon_data"] # Absent
         /\ \A b \in Bits : barr[<<tile_idx, b>>]["registered_decon_data"] # Absent

LoadRegisteredData ==
    \E readouts \in BOOLEAN :
        /\ IF tile_idx = NoneIdx
           THEN /\ UNCHANGED <<data_registered, has_registered_data>>
                /\ call' = Done("load_registered_data", "returned_none")
           ELSE IF RegisteredAvailable(readouts)
           THEN /\ data_registered' = [st |-> "loaded",
                                       vols |-> <<tile_id, IF readouts THEN 1 ELSE 0>>]
                /\ has_registered_data' = TRUE
                /\ call' = Done("load_registered_data", "ok")
           ELSE /\ UNCHANGED <<data_registered, has_registered_data>>
                /\ call' = Done("load_registered_data", "warned")
        /\ UNCHANGED <<store, config, data_raw, rigid_xforms, of_xforms,
                       has_rigid_registrations, has_of_registrations>>

(***************************************************************************)
(* apply_registration_to_bits, lines 484-645.                              *)
(***************************************************************************)
\* A mutant: the last bit owned by round 0 taken as reference instead of the
\* first.
RefBitLastReference ==
    LET Z == {b \in Bits : bitRound[b] = 0}
    IN  IF Z = {} THEN 0 ELSE CHOOSE b \in Z : \A c \in Z : b >= c

\* Lines 512-519: the first bit, in bit order, whose 'round' attribute is 0;
\* 0 when there is none (np.argwhere(...)[0] raises IndexError).
RefBit ==
    LET Z == {b \in Bits : bitRound[b] = 0}
    IN  IF Z = {} THEN 0 ELSE CHOOSE b \in Z : \A c \in Z : b <= c

\* Lines 582-593: the registered volume of a bit of a non-reference round.
BitRegistered(grid, image, shift, field, of) ==
    LET moved == apply_transform(grid, image, shift)
    IN  IF of THEN ResampleDense(moved, field, grid) ELSE moved

\* A mutant: the reference round's bits resampled like the others.
BitReferenceResampled(image) ==
    [image EXCEPT !.xf = Append(image.xf, RigidStep(ZeroShift, image.src))]

\* Lines 600-603: the registered volume of a bit of the reference round.
BitReference(image) == image

\* A mutant: the persisted shift handed on in double precision.
BitShiftWide(rnid) == rigid[rnid]

\* Lines 566-568: the shift read from the owning round's node.
BitShift(rnid) == F32Shift(rigid[rnid])

\* Lines 531-642: one bit.
ApplyBit(a, b, grid) ==
    LET bid == <<tile_id, b>>
        r_idx == bitRound[b]
        rnid == <<tile_id, r_idx>>
        decon_image == Vol(<<"bit", tile_id, b>>, BitPsf(tile_id, b), FALSE, <<>>, "uint16")
        dog_image == [decon_image EXCEPT !.dog = TRUE, !.dt = "float32"]
        co == CreateOrOpen(a.barr[bid], BitArrNames, BitDts)
        persist(dreg, greg, applied) ==
            [barr |-> [a.barr EXCEPT ![bid] =
                        IF co.ok
                        THEN WriteAll(co.arrs, BitArrNames, BitDts,
                                      <<decon_image, dog_image, dreg, greg>>)
                        ELSE co.arrs],
             res |-> IF co.ok THEN "ok" ELSE "KeyError",
             applied |-> applied]
    IN  IF r_idx > 0
        THEN IF rnid \notin nodes THEN [a EXCEPT !.res = "PathNotFoundError"]
             ELSE IF rigid[rnid] = NoShift THEN [a EXCEPT !.res = "KeyError"]
             ELSE IF perform_optical_flow /\ ofx[rnid] = NoField
                  THEN [a EXCEPT !.res = "KeyError"]
             ELSE
             LET shift == BitShift(rnid)
                 dreg == BitRegistered(grid, decon_image, shift, ofx[rnid],
                                       perform_optical_flow)
                 greg == BitRegistered(grid, dog_image, shift, ofx[rnid],
                                       perform_optical_flow)
                 applied == Append(a.applied, [bit |-> b, decon |-> shift, dog |-> shift])
             IN  \* line 597: `del ..., displacement_field` with the name never
                 \* bound when optical flow is off.
                 IF ~perform_optical_flow
                 THEN [a EXCEPT !.res = "UnboundLocalError", !.applied = applied]
                 ELSE persist(dreg, greg, applied)
        ELSE persist(BitReference(decon_image), BitReference(dog_image), a.applied)

RECURSIVE ApplyLoop(_, _, _)
\* A mutant: the bits of the reference round are left out.
ApplyLoopRegisteredOnly(a, b, grid) ==
    IF a.res # "ok" \/ b > NumBits THEN a
    ELSE ApplyLoop(IF bitRound[b] = 0 THEN a ELSE ApplyBit(a, b, grid), b + 1, grid)

ApplyLoop(a, b, grid) ==
    IF a.res # "ok" \/ b > NumBits THEN a
    ELSE ApplyLoop(ApplyBit(a, b, grid), b + 1, grid)

ApplyRegistrationToBits ==
    IF tile_idx = NoneIdx
    THEN /\ call' = Done("apply_registration_to_bits", "returned_none")
         /\ UNCHANGED <<store, cache, config>>
    ELSE
    LET rg == IF has_rigid_registrations
              THEN [xf |-> rigid_xforms, has |-> TRUE]
              ELSE LoadRigid(tile_id, round_ids, nodes, rigid)
        needOf == rg.has /\ perform_optical_flow /\ ~has_of_registrations
        of == IF needOf
              THEN LoadOpticalFlow(tile_id, round_ids, nodes, ofx, of_xforms)
              ELSE [xf |-> of_xforms, has |-> has_of_registrations]
        start == [barr |-> barr, res |-> "ok", applied |-> <<>>]
        a == IF ~rg.has THEN [start EXCEPT !.res = "CreateRigidRegistrationsFirst"]
             ELSE IF needOf /\ ~of.has
                  THEN [start EXCEPT !.res = "CreateVectorFieldRegistrationsFirst"]
             \* line 505 reads self._dataset_path
             ELSE IF dataset_path # "set" THEN [start EXCEPT !.res = "AttributeError"]
             ELSE IF RefBit = 0 THEN [start EXCEPT !.res = "IndexError"]
             ELSE ApplyLoop(start, 1, Raw("bit", tile_id, RefBit))
    IN  /\ rigid_xforms' = rg.xf
        /\ has_rigid_registrations' = rg.has
        /\ of_xforms' = of.xf
        /\ has_of_registrations' = of.has
        /\ barr' = a.barr
        /\ call' = [res |-> a.res, applied |-> a.applied]
        /\ UNCHANGED <<nodes, rigid, ofx, rarr, bitRound, config, data_raw,
                       data_registered, has_registered_data>>

Next ==
    \/ SetTileIdx
    \/ DelTileIdx
    \/ DelDatasetPath
    \/ SetPerformOpticalFlow
    \/ DelOfXforms
    \/ DelDataRaw
    \/ DelDataRegistered
    \/ LoadRawData
    \/ LoadRigidRegistrations
    \/ LoadOpticalFlowRegistrations
    \/ GenerateRegistrations
    \/ LoadRegisteredData
    \/ ApplyRegistrationToBits

Spec == Init /\ [][Next]_vars

\* The operations that read or write the registrations and their caches: all
\* of Next but the loader and the deleter of the registered-data stack and the
\* deleter of the dataset path, so self._dataset_path stays as constructed.
NextRegistration ==
    \/ SetTileIdx
    \/ DelTileIdx
    \/ SetPerformOpticalFlow
    \/ DelOfXforms
    \/ DelDataRaw
    \/ LoadRawData
    \/ LoadRigidRegistrations
    \/ LoadOpticalFlowRegistrations
    \/ GenerateRegistrations
    \/ ApplyRegistrationToBits

SpecRegistration == Init /\ [][NextRegistration]_vars

(***************************************************************************)
(* A dataset whose nodes already hold some of the output arrays: every     *)
(* subset of the round arrays, and every subset of the bit arrays.         *)
(***************************************************************************)
PriorArrays ==
    {<<rs, {}>> : rs \in SUBSET Range(RoundArrNames)}
        \cup {<<{}, bs>> : bs \in SUBSET Range(BitArrNames)}

InitPrior == \E pre \in PriorArrays : Constructed(pre[1], pre[2], StandardLayout, 0)

\* attrs['round'] of a dataset whose bits were all imaged with the reference
\* round.
ReferenceLayout == [b \in Bits |-> 0]

\* The instance constructed on either tile, over either bit layout.
InitTiles ==
    \E tile \in Tiles : \E layout \in {StandardLayout, ReferenceLayout} :
        Constructed({}, {}, layout, tile)

NextPrior ==
    \/ SetPerformOpticalFlow
    \/ GenerateRegistrations
    \/ ApplyRegistrationToBits

SpecPrior == InitPrior /\ [][NextPrior]_vars

\* attrs['round'] of a dataset none of whose bits was imaged with the reference
\* round, and of one whose first bit was imaged with round 1 and the others
\* with the reference round.
NoReferenceLayout == [b \in Bits |-> 1 + ((b - 1) % MaxRound)]
LateReferenceLayout == [b \in Bits |-> IF b = 1 THEN 1 ELSE 0]

\* attrs['round'] of a dataset whose last bit was imaged with round 1 and the
\* others with the reference round.
EarlyReferenceLayout == [b \in Bits |-> IF b = NumBits THEN 1 ELSE 0]

\* The instance constructed on the first tile, over each bit layout.
InitLayouts ==
    \E layout \in {StandardLayout, NoReferenceLayout, LateReferenceLayout,
                   EarlyReferenceLayout} :
        Constructed({}, {}, layout, 0)

SpecLayouts == InitLayouts /\ [][NextPrior]_vars
SpecTiles == InitTiles /\ [][NextPrior]_vars

\* The instance constructed on either tile and then moved between the tiles.
NextTileChange ==
    \/ SetTileIdx
    \/ SetPerformOpticalFlow
    \/ GenerateRegistrations
    \/ ApplyRegistrationToBits

SpecTileChange == InitTiles /\ [][NextTileChange]_vars

\* The instance moved between the first tile and the incomplete tile.
SetTileIdxIncomplete ==
    \E new \in {0, IncompleteTile} :
        /\ has_registrations' = "False"
        /\ tile_idx' = new
        /\ tile_id' = new
        /\ call' = Done("set_tile_idx", "ok")
        /\ UNCHANGED <<store, cache, round_ids, perform_optical_flow, overwrite_registered,
                       dataset_path>>

NextIncomplete ==
    \/ SetTileIdxIncomplete
    \/ SetPerformOpticalFlow
    \/ DelDataRaw
    \/ LoadRawData
    \/ GenerateRegistrations

SpecIncomplete == Init /\ [][NextIncomplete]_vars

\* The instance moved between the two complete tiles.
SetTileIdxSecond ==
    \E new \in {0, SecondTile} :
        /\ has_registrations' = "False"
        /\ tile_idx' = new
        /\ tile_id' = new
        /\ call' = Done("set_tile_idx", "ok")
        /\ UNCHANGED <<store, cache, round_ids, perform_optical_flow, overwrite_registered,
                       dataset_path>>

\* Registration of the two complete tiles, one after the other.
NextPeaks ==
    \/ SetTileIdxSecond
    \/ SetPerformOpticalFlow
    \/ DelDataRaw
    \/ LoadRawData
    \/ GenerateRegistrations

SpecPeaks == Init /\ [][NextPeaks]_vars

\* attrs['round'] of a dataset whose first bit was imaged with the reference
\* round and the others with the last round.
SparseLayout == [b \in Bits |-> IF b = 1 THEN 0 ELSE MaxRound]

\* The state after DataRegistration(dataset_path, tile_idx=0) on a dataset
\* whose first tile holds the round directories named in S only.
ConstructedOver(S, layout) ==
    /\ nodes = {nid \in RoundIds : HasAttrs(nid) /\ (nid[1] = 0 => nid[2] \in S)}
    /\ rigid = [nid \in RoundIds |-> NoShift]
    /\ ofx = [nid \in RoundIds |-> NoField]
    /\ rarr = [nid \in RoundIds |-> [n \in Range(RoundArrNames) |-> Absent]]
    /\ barr = [bid \in BitIds |-> [n \in Range(BitArrNames) |-> Absent]]
    /\ bitRound = layout
    /\ tile_idx = 0
    /\ tile_id = 0
    /\ round_ids = SortedRounds(S)
    /\ perform_optical_flow \in BOOLEAN
    /\ overwrite_registered \in BOOLEAN
    /\ dataset_path = "set"
    /\ data_raw = NoData
    /\ rigid_xforms = <<>>
    /\ of_xforms = <<>>
    /\ has_rigid_registrations = FALSE
    /\ has_of_registrations = FALSE
    /\ data_registered = NoRegistered
    /\ has_registered_data = FALSE
    /\ has_registrations = "unset"
    /\ call = Done("init", "ok")

\* Every set of at least two round directories the first tile can hold.
InitRoundNames ==
    \E S \in {T \in SUBSET RoundsOf(0) : Cardinality(T) >= 2} :
        \E layout \in {StandardLayout, SparseLayout} :
            ConstructedOver(S, layout)

SpecRoundNames == InitRoundNames /\ [][NextPrior]_vars

\* The rigid cache: its loader, its accessor and the tile_idx setter and
\* deleter, over the stores generate_registrations leaves.
NextAccessors ==
    \/ GetRigidXforms
    \/ SetTileIdx
    \/ DelTileIdx
    \/ SetPerformOpticalFlow
    \/ LoadRawData
    \/ LoadRigidRegistrations
    \/ GenerateRegistrations

SpecAccessors == Init /\ [][NextAccessors]_vars

(***************************************************************************)
(* Properties.                                                             *)
(***************************************************************************)
ActiveRounds == {<<tile_id, round_ids[i]>> : i \in 1..Len(round_ids)}
OwnerOf(b) == <<tile_id, bitRound[b]>>
Written(v) == v.src[1] \in {"round", "bit"}

\* C1: whenever apply_registration_to_bits is called while the owning
\* non-reference round of some bit of the active tile has no persisted rigid
\* shift, it ends with 'Create rigid registrations first.' and no bit array has
\* changed.
C1_MissingRigidFailsFast ==
    [][(/\ tile_idx # NoneIdx
        /\ \E b \in Bits : /\ bitRound[b] > 0
                           /\ (OwnerOf(b) \notin nodes \/ rigid[OwnerOf(b)] = NoShift)
        /\ ApplyRegistrationToBits)
       => (call'.res = "CreateRigidRegistrationsFirst" /\ barr' = barr)]_vars

\* C2 as stated: every translation apply_registration_to_bits applies to a bit of
\* round R > 0 is, for the deconvolved and for the DoG volume, exactly the shift
\* persisted on round R's node.
C2_AppliedShiftIsPersistedExactly ==
    \A i \in 1..Len(call.applied) :
        LET e == call.applied[i]
        IN  /\ bitRound[e.bit] > 0
            /\ e.decon = rigid[OwnerOf(e.bit)]
            /\ e.dog = rigid[OwnerOf(e.bit)]

\* C2 amended: the translation applied to both volumes of a bit of round R > 0
\* is the shift persisted on round R's node narrowed to single precision, the
\* same for both volumes, and it is the first transform of both registered
\* arrays the call persists.
C2_AppliedShiftIsPersistedNarrowed ==
    \A i \in 1..Len(call.applied) :
        LET e == call.applied[i]
            want == F32Shift(rigid[OwnerOf(e.bit)])
            arrs == barr[<<tile_id, e.bit>>]
        IN  /\ bitRound[e.bit] > 0
            /\ e.decon = want
            /\ e.dog = want
            /\ call.res = "ok" =>
                /\ arrs["registered_decon_data"].xf[1].k = "rigid"
                /\ arrs["registered_decon_data"].xf[1].s = want
                /\ arrs["registered_dog_data"].xf[1].k = "rigid"
                /\ arrs["registered_dog_data"].xf[1].s = want

\* C2 witness: a call that completed, having translated a bit by a persisted
\* shift that single precision cannot hold.
C2_Witness ==
    /\ call.res = "ok"
    /\ \E i \in 1..Len(call.applied) :
          /\ call.applied[i].decon # rigid[OwnerOf(call.applied[i].bit)]
          /\ barr[<<tile_id, call.applied[i].bit>>]["registered_dog_data"].xf[1].s
                = call.applied[i].dog

\* C3: after generate_registrations completed on the tile and
\* apply_registration_to_bits then completed, every bit of a round R > 0 carries
\* the rigid shift of round R's registered volume (compared in single
\* precision) and carries a dense field exactly when round R holds a persisted
\* dense field that was applied to round R's registered volume.
C3_BitTransformEqualsRoundTransform ==
    (/\ call.res = "ok"
     /\ call.applied # <<>>
     /\ \A nid \in ActiveRounds :
            Acquired(nid) /\ Written(rarr[nid]["registered_decon_data"]))
    => \A b \in Bits :
        bitRound[b] > 0 =>
            LET bv == barr[<<tile_id, b>>]["registered_decon_data"]
                rv == rarr[OwnerOf(b)]["registered_decon_data"]
            IN  /\ SumRigid(bv.xf) = F32Shift(SumRigid(rv.xf))
                /\ HasDense(bv) <=> (ofx[OwnerOf(b)] # NoField /\ HasDense(rv))

\* C4: in every registered volume a round or a bit holds, a dense field is the
\* last transform and follows the complete rigid translation: the three
\* correlation passes of a round, summing to the round's persisted shift, or
\* the one translation of a bit.
DenseLast(v, n) ==
    \A i \in 1..Len(v.xf) :
        v.xf[i].k = "dense" =>
            /\ i = Len(v.xf)
            /\ i = n + 1
            /\ \A j \in 1..(i - 1) : v.xf[j].k = "rigid"

C4_DenseOnlyAfterRigid ==
    /\ \A nid \in RoundIds :
          LET v == rarr[nid]["registered_decon_data"]
          IN  /\ DenseLast(v, 3)
              /\ HasDense(v) => SumRigid(v.xf) = rigid[nid]
    /\ \A bid \in BitIds : \A n \in {"registered_decon_data", "registered_dog_data"} :
          LET v == barr[bid][n]
          IN  /\ DenseLast(v, 1)
              /\ HasDense(v) => v.xf[1].s = F32Shift(rigid[<<bid[1], bitRound[bid[2]]>>])

\* C4 witness: a round and one of its bits both hold a densely corrected
\* registered volume.
C4_Witness ==
    \E bid \in BitIds :
        /\ HasDense(barr[bid]["registered_dog_data"])
        /\ HasDense(rarr[<<bid[1], bitRound[bid[2]]>>]["registered_decon_data"])

\* C5: every bit of round 0 holds a registered_decon_data equal to its
\* decon_data and a registered_dog_data equal to its dog_data, whatever is
\* persisted for the other rounds and whatever perform_optical_flow is.
C5_ReferenceBitsUntransformed ==
    \A bid \in BitIds :
        bitRound[bid[2]] = 0 =>
            /\ barr[bid]["registered_decon_data"] = barr[bid]["decon_data"]
            /\ barr[bid]["registered_dog_data"] = barr[bid]["dog_data"]
            /\ barr[bid]["registered_decon_data"].xf = <<>>

\* C5 witness: a completed call with dense correction enabled wrote a bit of
\* round 0 and translated a bit of another round by a non-zero shift.
C5_Witness ==
    /\ call.res = "ok"
    /\ perform_optical_flow
    /\ \E i \in 1..Len(call.applied) : call.applied[i].decon # ZeroShift
    /\ \E b \in Bits :
          /\ bitRound[b] = 0
          /\ Written(barr[<<tile_id, b>>]["registered_dog_data"])

\* C6: a run of generate_registrations (of apply_registration_to_bits) that
\* completes on a tile whose round (bit) nodes already hold every array the run
\* writes leaves each node with the same set of named arrays, each holding what
\* this run computed: the volumes of the raw data in use, dense-corrected
\* exactly when perform_optical_flow is set in this run.
RoundNames(nid) ==
    {n \in Range(RoundArrNames) : rarr[nid][n] # Absent}
        \cup (IF ofx[nid] # NoField THEN {"of_xform_4x"} ELSE {})
BitNames(bid) == {n \in Range(BitArrNames) : barr[bid][n] # Absent}

RoundsHoldAll ==
    /\ tile_idx # NoneIdx
    /\ \A nid \in ActiveRounds :
        /\ Range(RoundArrNames) \subseteq RoundNames(nid)
        /\ (perform_optical_flow /\ nid[2] # round_ids[1]) => "of_xform_4x" \in RoundNames(nid)
BitsHoldAll ==
    /\ tile_idx # NoneIdx
    /\ \A b \in Bits : BitNames(<<tile_id, b>>) = Range(BitArrNames)

C6_SecondRunOverwritesInPlace ==
    [][/\ (call'.res = "ok" /\ RoundsHoldAll /\ GenerateRegistrations)
          => \A i \in 1..Len(round_ids) :
                LET nid == <<tile_id, round_ids[i]>>
                    src == <<"round", data_raw'.tile, data_raw'.rounds[i]>>
                IN  /\ RoundNames(nid)' = RoundNames(nid)
                    /\ rarr'[nid]["decon_data"].src = src
                    /\ rarr'[nid]["decon_data"].xf = <<>>
                    /\ rarr'[nid]["registered_decon_data"].src = src
                    /\ HasDense(rarr'[nid]["registered_decon_data"])
                          <=> (perform_optical_flow /\ i > 1)
                    /\ (perform_optical_flow /\ i > 1)
                          => ofx'[nid] = <<"of4x", src[2], src[3]>>
       /\ (call'.res = "ok" /\ BitsHoldAll /\ ApplyRegistrationToBits)
          => \A b \in Bits :
                LET bid == <<tile_id, b>>
                IN  /\ BitNames(bid)' = BitNames(bid)
                    /\ \A n \in Range(BitArrNames) : barr'[bid][n].src = <<"bit", tile_id, b>>
                    /\ HasDense(barr'[bid]["registered_decon_data"])
                          <=> (perform_optical_flow /\ bitRound[b] > 0)
                    /\ HasDense(barr'[bid]["registered_dog_data"])
                          <=> (perform_optical_flow /\ bitRound[b] > 0)]_vars

\* C6 witness: a round holds a dense field of an earlier run next to a
\* registered volume without dense correction: generate_registrations ran
\* again, with optical flow off, over the arrays of a run with optical flow on.
C6_Witness ==
    /\ call.res = "ok"
    /\ tile_idx # NoneIdx
    /\ \E nid \in ActiveRounds :
          /\ ofx[nid] # NoField
          /\ Written(rarr[nid]["registered_decon_data"])
          /\ ~HasDense(rarr[nid]["registered_decon_data"])

\* C7: persisting never fails because of which output arrays a node already
\* holds.  On the first tile of the dataset of SpecPrior every round node was
\* acquired and every prerequisite is loaded before it is read, so a KeyError
\* can only come from the lookups of the except branch.
C7_PersistNeverFatal ==
    [][call'.res = "KeyError" => ~(GenerateRegistrations \/ ApplyRegistrationToBits)]_vars

\* C8: with overwrite_registered = False, generate_registrations leaves every
\* round of the active tile that already holds its volumes and its transform
\* parameters as it is.
RoundHoldsOutputs(nid) ==
    /\ rarr[nid]["decon_data"] # Absent
    /\ rarr[nid]["registered_decon_data"] # Absent
    /\ nid[2] # round_ids[1] => rigid[nid] # NoShift

C8_NoOverwriteKeepsRound ==
    [][(tile_idx # NoneIdx /\ ~overwrite_registered /\ GenerateRegistrations)
       => \A nid \in ActiveRounds :
            RoundHoldsOutputs(nid) =>
                /\ rarr'[nid] = rarr[nid]
                /\ rigid'[nid] = rigid[nid]
                /\ ofx'[nid] = ofx[nid]]_vars

\* C9: when the active tile changes, by assignment or by deletion, the cached
\* shifts and fields are dropped, both flags read 'not loaded', and the store
\* is unchanged.
C9_TileChangeInvalidates ==
    [][((tile_idx' # tile_idx /\ SetTileIdx) \/ (tile_idx # NoneIdx /\ DelTileIdx))
       => /\ rigid_xforms' = <<>>
          /\ of_xforms' = <<>>
          /\ ~has_rigid_registrations'
          /\ ~has_of_registrations'
          /\ UNCHANGED store]_vars

\* C10: with the tile index None, each of the six operations raises an error
\* and changes neither the store nor the cached state.
C10_NoTileRaises ==
    [][(/\ tile_idx = NoneIdx
        /\ \/ LoadRawData
           \/ LoadRegisteredData
           \/ GenerateRegistrations
           \/ ApplyRegistrationToBits
           \/ LoadRigidRegistrations
           \/ LoadOpticalFlowRegistrations)
       => /\ call'.res \notin {"ok", "returned_none", "warned"}
          /\ UNCHANGED store
          /\ UNCHANGED cache]_vars

\* The non-reference round directories of the active tile.
TileRounds == {nid \in nodes : nid[1] = tile_id /\ nid[2] # 0}

\* C11: whenever apply_registration_to_bits is called with dense correction
\* enabled while every non-reference round of the active tile has a persisted
\* rigid shift and some non-reference round has no persisted dense field, it
\* ends with 'Create vector field registrations first.' and no bit array has
\* changed.
C11_MissingDenseNamesDense ==
    [][(/\ tile_idx # NoneIdx
        /\ perform_optical_flow
        /\ \A nid \in TileRounds : nid \in nodes /\ rigid[nid] # NoShift
        /\ \E nid \in TileRounds : ofx[nid] = NoField
        /\ ApplyRegistrationToBits)
       => (call'.res = "CreateVectorFieldRegistrationsFirst" /\ barr' = barr)]_vars

\* C12: a generate_registrations call on a tile one of whose non-reference
\* rounds, in the order of the round list, lacks its acquisition attributes
\* or its raw data raises, and leaves the rigid shift, the dense field
\* and the volumes of that round and of every round after it as they were.
MissingAt(i) == ~Acquired(<<tile_id, round_ids[i]>>)

C12_MissingRoundIsFatal ==
    [][(/\ tile_idx # NoneIdx
        /\ \E k \in 2..Len(round_ids) : MissingAt(k)
        /\ GenerateRegistrations)
       => /\ call'.res \notin {"ok", "returned_none"}
          /\ \A i \in 2..Len(round_ids) :
                (\E k \in 2..i : MissingAt(k)) =>
                    LET nid == <<tile_id, round_ids[i]>>
                    IN  /\ rigid'[nid] = rigid[nid]
                        /\ ofx'[nid] = ofx[nid]
                        /\ rarr'[nid] = rarr[nid]]_vars

\* C13: the rigid shift persisted on a non-reference round is the
\* component-wise sum of the three shifts its registered volume was translated
\* by, in order: the xy pass estimated on the deconvolved round, the z pass
\* estimated after the xy shift was applied, the 3D pass estimated after both
\* were applied.
C13_PersistedShiftIsSumOfPasses ==
    \A nid \in RoundIds :
        (nid[2] > 0 /\ rigid[nid] # NoShift) =>
            LET v == rarr[nid]["registered_decon_data"]
                mov0 == rarr[nid]["decon_data"]
                ref == rarr[<<nid[1], 0>>]["decon_data"]
                xy == compute_rigid_transform(ref, mov0, "z")
                mov1 == apply_transform(ref, mov0, xy)
                z == compute_rigid_transform(ref, mov1, "search")
                mov2 == apply_transform(ref, mov1, z)
                xyz == compute_rigid_transform(ref, mov2, "none")
            IN  /\ Written(v)
                /\ Len(v.xf) >= 3
                /\ v.xf[1].s = xy
                /\ v.xf[2].s = z
                /\ v.xf[3].s = xyz
                /\ \A c \in 1..3 : rigid[nid][c] = xy[c] + z[c] + xyz[c]

\* C13 witness: a round whose three passes each measured a shift.
C13_Witness ==
    \E nid \in RoundIds :
        /\ nid[2] > 0
        /\ rigid[nid] # NoShift
        /\ Len(rarr[nid]["registered_decon_data"].xf) >= 3
        /\ \A j \in 1..3 : rarr[nid]["registered_decon_data"].xf[j].s # ZeroShift

\* C14: a pass that finds no correlation peak contributes a zero shift and
\* nothing else changes: the round's registered volume was translated by zero
\* in that pass, its persisted shift is the sum of the shifts of the other
\* passes, and the round and every later round of the tile are persisted.
Passes == <<"z", "search", "none">>

PeakSum(v, src, c) ==
    LET term(j) == IF NoPeak(src, Passes[j]) THEN 0 ELSE v.xf[j].s[c]
    IN  term(1) + term(2) + term(3)

C14_NoPeakContributesZero ==
    \A nid \in RoundIds :
        LET v == rarr[nid]["registered_decon_data"]
        IN  (nid[2] > 0 /\ Written(v) /\ \E j \in 1..3 : NoPeak(v.src, Passes[j])) =>
                /\ Len(v.xf) >= 3
                /\ \A j \in 1..3 : NoPeak(v.src, Passes[j]) => v.xf[j].s = ZeroShift
                /\ \A c \in 1..3 : rigid[nid][c] = PeakSum(v, v.src, c)
                /\ \A r \in RoundNums :
                      (r >= v.src[3] /\ <<v.src[2], r>> \in nodes /\ Acquired(<<v.src[2], r>>)
                            /\ Acquired(<<nid[1], r>>)) =>
                          /\ rigid[<<nid[1], r>>] # NoShift
                          /\ Written(rarr[<<nid[1], r>>]["decon_data"])
                          /\ Written(rarr[<<nid[1], r>>]["registered_decon_data"])

\* C14 witness: for each of the three passes, a persisted round in which that
\* pass found no peak and contributed zero while the two other passes measured
\* a shift; and a round persisted after a round with a pass without a peak.
C14_Witness ==
    /\ \A j \in 1..3 :
          \E nid \in RoundIds :
              LET v == rarr[nid]["registered_decon_data"]
              IN  /\ nid[2] > 0
                  /\ Written(v)
                  /\ Len(v.xf) >= 3
                  /\ NoPeak(v.src, Passes[j]) /\ v.xf[j].s = ZeroShift
                  /\ \A k \in 1..3 : k # j => v.xf[k].s # ZeroShift
                  /\ rigid[nid] # NoShift
    /\ \E nid \in RoundIds :
          LET v == rarr[nid]["registered_decon_data"]
          IN  /\ nid[2] > 0
              /\ Written(v)
              /\ \E j \in 1..3 : NoPeak(v.src, Passes[j])
              /\ \E r \in RoundNums :
                    r > nid[2] /\ Written(rarr[<<nid[1], r>>]["registered_decon_data"])

\* C15: a non-reference round that repeats the reference round (the same
\* voxels, deconvolved with the same point-spread function) gets the rigid
\* shift (0, 0, 0) and a registered_decon_data with the voxels of its
\* decon_data: translations by zero and a displacement field estimated between
\* identical volumes leave the voxels as they are.
ZeroField(f) == f[1] = "of4x" /\ CopyOfReference(<<"round", f[2], f[3]>>)

IdentityStep(step) ==
    \/ step.k = "rigid" /\ step.s = ZeroShift
    \/ step.k = "dense" /\ ZeroField(step.f)

Voxels(v) == [v EXCEPT !.xf = SelectSeq(v.xf, LAMBDA step : ~IdentityStep(step))]

C15_SelfRegistrationIsIdentity ==
    \A nid \in RoundIds :
        LET v == rarr[nid]["registered_decon_data"]
            d == rarr[nid]["decon_data"]
        IN  (nid[2] > 0 /\ Written(v) /\ CopyOfReference(v.src) /\ d.psf = 0) =>
                /\ rigid[nid] = ZeroShift
                /\ Voxels(v) = Voxels(d)

\* C15 witness: the repeat of the reference round registered with dense
\* correction.
C15_Witness ==
    \E nid \in RoundIds :
        LET v == rarr[nid]["registered_decon_data"]
        IN  /\ nid[2] > 0
            /\ Written(v)
            /\ CopyOfReference(v.src)
            /\ rarr[nid]["decon_data"].psf = 0
            /\ HasDense(v)
            /\ rigid[nid] = ZeroShift

\* C16: when apply_registration_to_bits has returned normally on a tile, every
\* bit node of the tile holds decon_data, dog_data, registered_decon_data and
\* registered_dog_data, each with the volume computed from the bit's raw data
\* and none with what an earlier pipeline run left or with the zeros of its
\* creation.
C16_AllFourArraysPerBit ==
    (call.res = "ok" /\ call.applied # <<>> /\ tile_idx # NoneIdx) =>
        \A b \in Bits : \A n \in Range(BitArrNames) :
            barr[<<tile_id, b>>][n].src = <<"bit", tile_id, b>>

\* C16 witness: a completed call over bit nodes that already held arrays of
\* an earlier pipeline run on another bit of the dataset.
C16_Witness ==
    /\ call.res = "ok"
    /\ call.applied # <<>>
    /\ tile_idx # NoneIdx
    /\ \A b \in Bits : Written(barr[<<tile_id, b>>]["registered_dog_data"])
    /\ \E bid \in BitIds : barr[bid]["dog_data"].src[1] = "old"

\* C17: a generate_registrations call that completes leaves round 0 of the
\* tile without a rigid shift and without a dense field, with a
\* registered_decon_data equal to its decon_data, and every other round of the
\* tile with a persisted rigid shift.
C17_OnlyReferenceUnmeasured ==
    [][(/\ tile_idx # NoneIdx
        /\ call'.res = "ok"
        /\ GenerateRegistrations)
       => LET r0 == <<tile_id, round_ids[1]>>
          IN  /\ r0[2] = 0
              /\ rigid'[r0] = NoShift
              /\ ofx'[r0] = NoField
              /\ Written(rarr'[r0]["decon_data"])
              /\ rarr'[r0]["registered_decon_data"] = rarr'[r0]["decon_data"]
              /\ \A i \in 2..Len(round_ids) :
                    rigid'[<<tile_id, round_ids[i]>>] # NoShift
              /\ \A nid \in TileRounds' : rigid'[nid] # NoShift]_vars


\* C18: apply_registration_to_bits on a tile all of whose bits are owned by
\* the reference round completes and persists the four arrays of every bit,
\* whether or not a rigid shift has been persisted.
C18_ReferenceOnlyTileNeedsNoRigid ==
    [][(/\ tile_idx # NoneIdx
        /\ \A b \in Bits : bitRound[b] = 0
        /\ ApplyRegistrationToBits)
       => /\ call'.res = "ok"
          /\ \A b \in Bits : \A i \in 1..Len(BitArrNames) :
                Written(barr'[<<tile_id, b>>][BitArrNames[i]])]_vars


\* C19: with perform_optical_flow disabled, generate_registrations leaves the
\* of_xform_4x array of every round as it was, and every registered volume it
\* writes is the rigidly translated volume, with no displacement field in it.
C19_DisabledFlowTouchesNoField ==
    [][(~perform_optical_flow /\ GenerateRegistrations)
       => /\ ofx' = ofx
          /\ \A nid \in RoundIds :
                rarr'[nid]["registered_decon_data"] # rarr[nid]["registered_decon_data"]
                    => ~HasDense(rarr'[nid]["registered_decon_data"])
          /\ call'.res = "ok"
                => \A i \in 2..Len(round_ids) :
                      LET v == rarr'[<<tile_id, round_ids[i]>>]["registered_decon_data"]
                      IN  /\ Written(v)
                          /\ ~HasDense(v)
                          /\ Len(v.xf) = 3]_vars

\* A run with optical flow disabled has completed over a round that holds a
\* field from an earlier run: the field is still there, and the registered
\* volume carries the three translations only.
C19_Witness ==
    /\ tile_idx # NoneIdx /\ ~perform_optical_flow /\ call.res = "ok"
    /\ \A i \in 2..Len(round_ids) :
          LET nid == <<tile_id, round_ids[i]>>
          IN  /\ ofx[nid] # NoField
              /\ Written(rarr[nid]["registered_decon_data"])
              /\ ~HasDense(rarr[nid]["registered_decon_data"])


\* The round at position i of the round list shows a trace of this call: its
\* node was created, or its shift, its field or one of its arrays changed.
Started(i) ==
    LET nid == <<tile_id, round_ids[i]>>
    IN  \/ nid \in nodes' \ nodes
        \/ rigid'[nid] # rigid[nid]
        \/ ofx'[nid] # ofx[nid]
        \/ rarr'[nid] # rarr[nid]

\* The transforms of a registered round volume in the order of the stages: the
\* three translations, then, with optical flow, the persisted field.
StagesInOrder(v, shift, field, of) ==
    /\ Len(v.xf) = IF of THEN 4 ELSE 3
    /\ \A k \in 1..3 : v.xf[k].k = "rigid"
    /\ SumRigid(v.xf) = shift
    /\ of => (v.xf[4].k = "dense" /\ v.xf[4].f = field /\ field # NoField)

\* C20: in every call of generate_registrations the stages of a round run in
\* the order deconvolve, rigid-estimate, rigid-apply, dense-estimate,
\* dense-apply, persist: a decon_data the call writes is the deconvolved volume
\* with no transform, a registered_decon_data it writes carries all of the
\* round's transforms in that order, and a round shows a trace of the call only
\* if the round before it holds both of its volumes.
C20_StagesRunInOrder ==
    [][(tile_idx # NoneIdx /\ GenerateRegistrations)
       => \A i \in 2..Len(round_ids) :
             LET nid == <<tile_id, round_ids[i]>>
                 before == <<tile_id, round_ids[i - 1]>>
                 dec == rarr'[nid]["decon_data"]
                 reg == rarr'[nid]["registered_decon_data"]
             IN  /\ (dec # rarr[nid]["decon_data"] /\ Written(dec))
                        => (dec.xf = <<>> /\ dec.psf # NoneIdx)
                 /\ (reg # rarr[nid]["registered_decon_data"] /\ Written(reg))
                        => /\ StagesInOrder(reg, rigid'[nid], ofx'[nid], perform_optical_flow)
                           /\ Written(dec)
                           /\ reg.src = dec.src /\ reg.psf = dec.psf
                 /\ Started(i)
                        => /\ Written(rarr'[before]["decon_data"])
                           /\ Written(rarr'[before]["registered_decon_data"])
                           /\ i > 2 => rigid'[before] # NoShift]_vars

\* A call with optical flow has completed over every round: the last round
\* holds its four transforms in order, and the round before it is persisted.
C20_Witness ==
    /\ tile_idx # NoneIdx /\ perform_optical_flow /\ call.res = "ok"
    /\ Len(round_ids) > 2
    /\ LET last == <<tile_id, round_ids[Len(round_ids)]>>
           before == <<tile_id, round_ids[Len(round_ids) - 1]>>
       IN  /\ StagesInOrder(rarr[last]["registered_decon_data"], rigid[last], ofx[last], TRUE)
           /\ rarr[last]["decon_data"].xf = <<>>
           /\ Written(rarr[before]["registered_decon_data"])
           /\ rigid[before] # NoShift


\* C21: starting from a store with no registration outputs, after any sequence
\* of calls every non-reference round that holds a registered_decon_data array
\* holds a persisted rigid shift, and a persisted dense field whenever the
\* volume in the array was densely corrected.
C21_PersistedImpliesRigidEstimated ==
    \A nid \in RoundIds :
        LET reg == rarr[nid]["registered_decon_data"]
        IN  (nid[2] # 0 /\ reg # Absent)
                => /\ rigid[nid] # NoShift
                   /\ HasDense(reg) => ofx[nid] # NoField

\* A call aborted at a later round has left an earlier non-reference round
\* persisted, with its shift and its densely corrected volume.
C21_Witness ==
    /\ call.res \notin {"ok", "returned_none"}
    /\ \E nid \in RoundIds :
          /\ nid[2] # 0
          /\ HasDense(rarr[nid]["registered_decon_data"])
          /\ rigid[nid] # NoShift /\ ofx[nid] # NoField
          /\ \E later \in RoundIds :
                /\ later[1] = nid[1] /\ later[2] > nid[2]
                /\ rarr[later]["registered_decon_data"] = Absent


\* The translations of a volume were all resampled onto the grid of ref.
RegisteredAgainst(v, ref) ==
    \A k \in 1..Len(v.xf) : v.xf[k].k = "rigid" => v.xf[k].grid = ref.src

\* C22: in one generate_registrations call the reference round is deconvolved
\* before any other round and left as it is, every non-reference round the call
\* writes is registered against it, and the rounds are taken in increasing
\* round order.
C22_FixedReferenceIncreasingOrder ==
    [][(tile_idx # NoneIdx /\ GenerateRegistrations)
       => LET r0 == <<tile_id, round_ids[1]>>
              refv == rarr'[r0]["decon_data"]
          IN  /\ \A i \in 1..(Len(round_ids) - 1) : round_ids[i] < round_ids[i + 1]
              /\ \A i \in 2..Len(round_ids) :
                    LET nid == <<tile_id, round_ids[i]>>
                        reg == rarr'[nid]["registered_decon_data"]
                    IN  (reg # rarr[nid]["registered_decon_data"] /\ Written(reg))
                           => /\ Written(refv) /\ refv.xf = <<>>
                              /\ rarr'[r0]["registered_decon_data"] = refv
                              /\ reg.src # refv.src
                              /\ RegisteredAgainst(reg, refv)
                              /\ \A j \in 2..(i - 1) :
                                    Written(rarr'[<<tile_id, round_ids[j]>>]
                                                 ["registered_decon_data"])]_vars

\* A call without optical flow has completed: both non-reference rounds hold
\* volumes translated onto the grid of the round-0 volume.
C22_Witness ==
    /\ tile_idx # NoneIdx /\ ~perform_optical_flow /\ call.res = "ok"
    /\ Len(round_ids) > 2
    /\ \A i \in 2..Len(round_ids) :
          LET reg == rarr[<<tile_id, round_ids[i]>>]["registered_decon_data"]
          IN  /\ Written(reg) /\ Len(reg.xf) = 3
              /\ RegisteredAgainst(reg, rarr[<<tile_id, 0>>]["decon_data"])
              /\ Written(rarr[<<tile_id, 0>>]["decon_data"])


\* The dense steps of a volume: each applies a field computed at the reduced
\* resolution, resampled onto the grid of a full-resolution volume.
DenseUpsampled(v) ==
    \A k \in 1..Len(v.xf) :
        v.xf[k].k = "dense"
            => /\ v.xf[k].f[1] = "of4x"
               /\ v.xf[k].grid[1] \in {"round", "bit"}

\* C23: a persisted dense field is the field at the reduced resolution at which
\* it was computed, and every dense field applied to a round or bit volume was
\* first resampled onto a full-resolution grid.
C23_DenseFieldUpsampledBeforeUse ==
    /\ \A nid \in RoundIds : ofx[nid] # NoField => ofx[nid][1] = "of4x"
    /\ \A nid \in RoundIds : \A i \in 1..Len(RoundArrNames) :
          DenseUpsampled(rarr[nid][RoundArrNames[i]])
    /\ \A bid \in BitIds : \A i \in 1..Len(BitArrNames) :
          DenseUpsampled(barr[bid][BitArrNames[i]])

\* A round volume and a bit volume each carry a dense step: the round's on its
\* own full-resolution grid, the bit's on the grid of the reference bit.
C23_Witness ==
    \E nid \in RoundIds : \E bid \in BitIds :
        LET rv == rarr[nid]["registered_decon_data"]
            bv == barr[bid]["registered_dog_data"]
        IN  /\ Len(rv.xf) = 4 /\ rv.xf[4].k = "dense" /\ rv.xf[4].grid[1] = "round"
            /\ Len(bv.xf) = 2 /\ bv.xf[2].k = "dense" /\ bv.xf[2].grid[1] = "bit"
            /\ ofx[nid][1] = "of4x"


\* C24: once generate_registrations has returned, the instance no longer holds
\* the raw volumes it used.
C24_RawReleasedAfterGenerate ==
    [][(tile_idx # NoneIdx /\ GenerateRegistrations /\ call'.res = "ok")
       => data_raw' = NoData]_vars


\* C25: a dense field persisted on a round was estimated by the call that wrote
\* the round's current rigid shift: a call that completes with optical flow
\* disabled has written every non-reference shift and estimated no field, so
\* it leaves no non-reference round holding one.
C25_NoFieldOlderThanShift ==
    [][(/\ tile_idx # NoneIdx
        /\ ~perform_optical_flow
        /\ GenerateRegistrations
        /\ call'.res = "ok")
       => \A i \in 2..Len(round_ids) :
             LET nid == <<tile_id, round_ids[i]>>
             IN  rigid'[nid] # NoShift /\ ofx'[nid] = NoField]_vars


\* C26: the volumes generate_registrations writes to the round nodes of the
\* active tile are computed from that tile's own raw volumes, round for round.
C26_WritesComeFromActiveTile ==
    [][(tile_idx # NoneIdx /\ GenerateRegistrations)
       => \A i \in 1..Len(round_ids) : \A k \in 1..Len(RoundArrNames) :
             LET nid == <<tile_id, round_ids[i]>>
                 v == rarr'[nid][RoundArrNames[k]]
             IN  (v # rarr[nid][RoundArrNames[k]] /\ Written(v))
                    => v.src = <<"round", tile_id, round_ids[i]>>]_vars


\* C27: in every reachable state the rigid-loaded flag is set only if the rigid
\* cache holds one shift for each non-reference round, and the dense-loaded
\* flag only if the dense cache holds one field for each non-reference round.
C27_FlagsMatchCaches ==
    /\ has_rigid_registrations => Len(rigid_xforms) = Len(round_ids) - 1
    /\ has_of_registrations => Len(of_xforms) = Len(round_ids) - 1


\* C28: apply_registration_to_bits changes no round node, generate_registrations
\* changes no bit node, and the loaders and the cache deleters change nothing
\* in the store: a step that changes round nodes is no step of
\* apply_registration_to_bits, a step that changes bit nodes is no step of
\* generate_registrations, and a step that changes the store is no step of a
\* loader or a deleter.
C28_OperationsKeepTheirFrame ==
    [][/\ <<nodes, rigid, ofx, rarr>>' # <<nodes, rigid, ofx, rarr>>
            => ~ApplyRegistrationToBits
       /\ <<barr, bitRound>>' # <<barr, bitRound>>
            => ~GenerateRegistrations
       /\ store' # store
            => ~(\/ LoadRawData
                 \/ LoadRegisteredData
                 \/ LoadRigidRegistrations
                 \/ LoadOpticalFlowRegistrations
                 \/ DelDataRaw
                 \/ DelOfXforms
                 \/ DelDataRegistered
                 \/ DelTileIdx)]_vars

\* apply_registration_to_bits has written a registered bit of a non-reference
\* round on a tile whose round nodes hold what generate_registrations left, and
\* a tile exists whose last round node was never created.
C28_Witness ==
    /\ tile_idx # NoneIdx /\ call.res = "ok" /\ call.applied # <<>>
    /\ \E b \in Bits :
          /\ bitRound[b] # 0
          /\ Written(barr[<<tile_id, b>>]["registered_dog_data"])
          /\ Written(rarr[<<tile_id, bitRound[b]>>]["registered_decon_data"])
    /\ \E nid \in RoundIds : nid \notin nodes


\* C29: every round volume generate_registrations deconvolves, the reference
\* round's included, and every bit volume apply_registration_to_bits
\* deconvolves, is deconvolved with the point-spread function selected by the
\* psf_idx attribute of its own node.
C29_DeconvolvedWithOwnPsf ==
    [][(tile_idx # NoneIdx /\ (GenerateRegistrations \/ ApplyRegistrationToBits))
       => /\ \A i \in 1..Len(round_ids) :
                LET nid == <<tile_id, round_ids[i]>>
                    dec == rarr'[nid]["decon_data"]
                IN  (dec # rarr[nid]["decon_data"] /\ Written(dec))
                       => dec.psf = RoundPsf(nid[1], nid[2])
          /\ \A b \in Bits :
                LET bid == <<tile_id, b>>
                    dec == barr'[bid]["decon_data"]
                IN  (dec # barr[bid]["decon_data"] /\ Written(dec))
                       => dec.psf = BitPsf(bid[1], bid[2])]_vars


\* C30: if no bit of the active tile is owned by round 0,
\* apply_registration_to_bits fails with no bit array written; otherwise every
\* registered volume it writes for a bit of a non-reference round was
\* resampled, in each of its steps, onto the grid of the raw volume of the
\* first bit owned by round 0.
C30_FirstReferenceBitIsTheGrid ==
    [][(tile_idx # NoneIdx /\ ApplyRegistrationToBits)
       => LET Z == {b \in Bits : bitRound[b] = 0}
          IN  IF Z = {}
              THEN call'.res # "ok" /\ barr' = barr
              ELSE LET first == CHOOSE b \in Z : \A c \in Z : b <= c
                   IN  \A b \in Bits :
                         \A n \in {"registered_decon_data", "registered_dog_data"} :
                           LET v == barr'[<<tile_id, b>>][n]
                           IN  (/\ bitRound[b] # 0
                                /\ v # barr[<<tile_id, b>>][n]
                                /\ Written(v))
                                  => /\ v.xf # <<>>
                                     /\ \A k \in 1..Len(v.xf) :
                                           v.xf[k].grid = <<"bit", tile_id, first>>]_vars

\* The first bit of the tile is owned by round 1, two later bits are owned by
\* round 0, and the first bit holds a registered volume whose steps were
\* resampled onto the grid of the first of the two.
C30_Witness ==
    /\ tile_idx # NoneIdx /\ call.res = "ok"
    /\ bitRound[1] # 0 /\ RefBit > 1
    /\ \E c \in Bits : c > RefBit /\ bitRound[c] = 0
    /\ LET v == barr[<<tile_id, 1>>]["registered_decon_data"]
       IN  /\ Written(v) /\ Len(v.xf) = 2
           /\ v.xf[1].grid = <<"bit", tile_id, RefBit>>
           /\ v.xf[2].grid = <<"bit", tile_id, RefBit>>


\* C31: reading the rigid_xforms accessor never fails, before or after
\* load_rigid_registrations, and neither does the tile_idx deleter, which uses
\* the accessor's deleter.
C31_RigidAccessorNeverFails ==
    [][/\ GetRigidXforms => call'.res \in {"ok", "warned"}
       /\ DelTileIdx => call'.res = "ok"]_vars


\* C32: whatever round directories the tile holds, the round node from which
\* apply_registration_to_bits reads the transform of a bit with 'round'
\* attribute r is the entry at position r of the sorted round list, which
\* generate_registrations registered with the raw volume at position r, and
\* the first entry of that list, the reference of generate_registrations, is
\* round 0, the round whose bits are taken as reference.
C32_NameLookupIsPositionLookup ==
    [][(tile_idx # NoneIdx /\ ApplyRegistrationToBits)
       => \A b \in Bits :
             LET r == bitRound[b]
                 v == barr'[<<tile_id, b>>]["registered_decon_data"]
             IN  (r > 0 /\ v # barr[<<tile_id, b>>]["registered_decon_data"] /\ Written(v))
                    => /\ round_ids[1] = 0
                       /\ r + 1 <= Len(round_ids)
                       /\ round_ids[r + 1] = r
                       /\ rarr[<<tile_id, r>>]["decon_data"].src
                              = <<"round", tile_id, round_ids[r + 1]>>]_vars

====
